---- MODULE Spec2Model ----
(***************************************************************************)
(* Model of openalex_crick_datasets.py: the paginated fetch loop of        *)
(* get_crick_datasets, save_datasets, print_summary and main.              *)
(***************************************************************************)
EXTENDS Integers, Sequences, FiniteSets, TLC

VARIABLES
    caller,        \* who runs: "main" (main()), "call" (a direct call of get_crick_datasets), "summary" (a direct call of print_summary)
    server,        \* the records the API holds for the filter, in the order it serves them
    per_page,      \* get_crick_datasets: per_page
    max_results,   \* get_crick_datasets: max_results, <<>> for None, <<m>> for the integer m
    page,          \* get_crick_datasets: page
    all_datasets,  \* get_crick_datasets: all_datasets
    fpc,           \* get_crick_datasets: "idle", "loop", "break", "returned", "raised"
    requests,      \* the page numbers of the GET requests issued so far, in order
    received,      \* the number of results of every response that was parsed, in order
    failure,       \* the request that failed: [kind, page], kind "none" before any failure
    mpc,           \* main: "idle", "fetch", "branch", "save", "summary", "done", "crashed"
    datasets,      \* main: datasets
    file,          \* crick_datasets.json: [state, content]
    stdout,        \* the lines printed, oldest first
    calls,         \* the stages main has entered, oldest first
    status,        \* exit status of the process: "running", "exit0", "exit1"
    crash,         \* what raised out of main: "none", "json", "write", "summary"
    sarg,          \* print_summary: datasets
    si,            \* print_summary: i of enumerate(datasets[:5], 1)
    spc            \* print_summary: "idle", "start", "loop", "returned", "raised"

vars == <<caller, server, per_page, max_results, page, all_datasets, fpc, requests,
          received, failure, mpc, datasets, file, stdout, calls, status, crash,
          sarg, si, spc>>

fetchVars == <<per_page, max_results, page, all_datasets, fpc, requests, received, failure>>
summaryVars == <<sarg, si, spc>>

-----------------------------------------------------------------------------
(* Bounds of the model *)

MaxPerPage == 3     \* page sizes 1..MaxPerPage for direct calls
MaxResults == 4     \* max_results 0..MaxResults for direct calls
MaxRecords == 7     \* the API holds 0..MaxRecords records for direct calls
MaxMainRecords == 6 \* the API holds 0..MaxMainRecords records (or a scenario size) under main
MaxLen == 6         \* print_summary is called directly on 0..MaxLen records

(* Program constants *)
DefaultPerPage == 200
PreviewLimit == 5

(* The sizes of the scenarios with full pages of 200 *)
ScenarioSizes == {200, 400, 450}

Min(a, b) == IF a <= b THEN a ELSE b
Max(a, b) == IF a >= b THEN a ELSE b

-----------------------------------------------------------------------------
(* JSON values, tagged by kind *)

Null == [t |-> "null"]
Str(s) == [t |-> "str", v |-> s]
Num(digits) == [t |-> "num", v |-> digits]
Bool(b) == [t |-> "bool", v |-> b]
Obj(m) == [t |-> "obj", v |-> m]
EmptyMap == <<>>

\* dict.get(key, default)
Get(m, key, default) == IF key \in DOMAIN m THEN m[key] ELSE default

\* whether a value has a .get method (is a mapping)
IsMapping(x) == x.t = "obj"

\* str(x) as print formats it
PyStr(x) ==
    CASE x.t = "null" -> "None"
      [] x.t = "bool" -> (IF x.v THEN "True" ELSE "False")
      [] x.t = "obj" -> "{}"
      [] OTHER -> x.v

-----------------------------------------------------------------------------
(* Records of the remote API *)

\* The contents a record can have besides its id
FullShape ==
    ("title" :> Str("A dataset")) @@ ("publication_year" :> Num("2020")) @@
    ("doi" :> Str("https://doi.org/10.1/x")) @@
    ("open_access" :> Obj("is_oa" :> Bool(TRUE)))
BareShape == EmptyMap
NoFlagShape == ("title" :> Null) @@ ("open_access" :> Obj(EmptyMap))
NullAccessShape == ("doi" :> Str("https://doi.org/10.1/y")) @@ ("open_access" :> Null)

Shapes == <<FullShape, BareShape, NoFlagShape, NullAccessShape>>

\* A record: a mapping from keys to JSON values; "id" tells the records apart
Rec(i, shape) == ("id" :> [t |-> "id", v |-> i]) @@ shape

\* The i-th record of the API under a catalog
RecordAt(catalog, i) ==
    IF catalog = "clean" THEN Rec(i, FullShape)
    ELSE Rec(i, Shapes[((i - 1) % Len(Shapes)) + 1])

Catalog(catalog, k) == [i \in 1..k |-> RecordAt(catalog, i)]

\* The response of GET /works?per-page=p&page=n: the n-th slice of p records
Page(srv, p, n) == SubSeq(srv, (n - 1) * p + 1, Min(n * p, Len(srv)))

-----------------------------------------------------------------------------
(* get_crick_datasets *)

None == <<>>
Some(m) == <<m>>

\* the truth value of max_results in "if max_results and ..."
Truthy(m) == m # None /\ m[1] # 0

\* seq[:n]
SlicePrefix(seq, n) ==
    IF n >= 0 THEN SubSeq(seq, 1, Min(n, Len(seq)))
    ELSE SubSeq(seq, 1, Max(0, Len(seq) + n))

\* mutant of Extend: the new page is put in front
ExtendInFront(acc, results) == results \o acc

\* all_datasets.extend(results)
Extend(acc, results) == acc \o results

\* mutant of ReachedMax: > for >=
ReachedMaxStrict(acc, m) == m # <<>> /\ m[1] # 0 /\ Len(acc) > m[1]

\* max_results and len(all_datasets) >= max_results
ReachedMax(acc, m) == Truthy(m) /\ Len(acc) >= m[1]

\* all_datasets = all_datasets[:max_results]
Truncate(acc, m) == SlicePrefix(acc, m[1])

\* mutants of ShortPage: <= for <, and the check left out
ShortPageInclusive(results, p) == Len(results) <= p
ShortPageNever(results, p) == FALSE

\* len(results) < per_page
ShortPage(results, p) == Len(results) < p

\* One iteration of the while loop on a response that parsed: the new
\* all_datasets and page, whether the loop breaks, whether progress was printed
Iteration(srv, p, m, pg, acc) ==
    LET results == Page(srv, p, pg)
        ext == Extend(acc, results)
    IN  IF Len(results) = 0
        THEN [acc |-> acc, page |-> pg, brk |-> TRUE, printed |-> FALSE]
        ELSE IF ReachedMax(ext, m)
        THEN [acc |-> Truncate(ext, m), page |-> pg, brk |-> TRUE, printed |-> TRUE]
        ELSE IF ShortPage(results, p)
        THEN [acc |-> ext, page |-> pg, brk |-> TRUE, printed |-> TRUE]
        ELSE [acc |-> ext, page |-> pg + 1, brk |-> FALSE, printed |-> TRUE]

\* The whole loop when no request fails: what get_crick_datasets returns
RECURSIVE RunLoop(_, _, _, _, _)
RunLoop(srv, p, m, pg, acc) ==
    LET it == Iteration(srv, p, m, pg, acc)
    IN  IF it.brk THEN it.acc ELSE RunLoop(srv, p, m, it.page, it.acc)

FetchAll(srv, p, m) == RunLoop(srv, p, m, 1, <<>>)

\* mutants of AfterError: the request is tried again; the error is raised again
AfterErrorRetry == "loop"
AfterErrorRaise == "raised"

\* where the except clause leaves the loop
AfterError == "break"

NoFailure == [kind |-> "none", page |-> 0]

\* requests.get succeeded, raise_for_status passed, response.json() parsed
FetchPageOk ==
    /\ fpc = "loop"
    /\ LET it == Iteration(server, per_page, max_results, page, all_datasets)
           n == Len(Page(server, per_page, page))
       IN  /\ requests' = Append(requests, page)
           /\ received' = Append(received, n)
           /\ all_datasets' = it.acc
           /\ page' = it.page
           /\ fpc' = IF it.brk THEN "break" ELSE "loop"
           /\ stdout' = IF it.printed
                        THEN Append(stdout, <<"page", page, n, Len(Extend(all_datasets, Page(server, per_page, page)))>>)
                        ELSE stdout
    /\ UNCHANGED <<caller, server, per_page, max_results, failure, mpc, datasets,
                   file, calls, status, crash, sarg, si, spc>>

\* requests.get or raise_for_status raised a RequestException
FetchPageRequestError ==
    /\ fpc = "loop"
    /\ requests' = Append(requests, page)
    /\ failure' = [kind |-> "request", page |-> page]
    /\ stdout' = Append(stdout, <<"error", page>>)
    /\ fpc' = AfterError
    /\ UNCHANGED <<caller, server, per_page, max_results, page, all_datasets, received,
                   mpc, datasets, file, calls, status, crash, sarg, si, spc>>

\* response.json() raised, and the error is a RequestException
\* (requests.exceptions.JSONDecodeError of requests 2.27 and later)
FetchPageBadJsonCaught ==
    /\ fpc = "loop"
    /\ requests' = Append(requests, page)
    /\ failure' = [kind |-> "json", page |-> page]
    /\ stdout' = Append(stdout, <<"error", page>>)
    /\ fpc' = AfterError
    /\ UNCHANGED <<caller, server, per_page, max_results, page, all_datasets, received,
                   mpc, datasets, file, calls, status, crash, sarg, si, spc>>

\* response.json() raised, and the error is a plain ValueError (older requests):
\* no except clause matches, the error leaves get_crick_datasets and main
FetchPageBadJsonUncaught ==
    /\ fpc = "loop"
    /\ requests' = Append(requests, page)
    /\ failure' = [kind |-> "json", page |-> page]
    /\ fpc' = "raised"
    /\ crash' = "json"
    /\ mpc' = IF caller = "main" THEN "crashed" ELSE mpc
    /\ status' = IF caller = "main" THEN "exit1" ELSE status
    /\ UNCHANGED <<caller, server, per_page, max_results, page, all_datasets, received,
                   datasets, file, stdout, calls, sarg, si, spc>>

\* return all_datasets
GetReturn ==
    /\ fpc = "break"
    /\ fpc' = "returned"
    /\ IF caller = "main"
       THEN /\ datasets' = all_datasets
            /\ mpc' = "branch"
       ELSE UNCHANGED <<datasets, mpc>>
    /\ UNCHANGED <<caller, server, per_page, max_results, page, all_datasets, requests,
                   received, failure, file, stdout, calls, status, crash, sarg, si, spc>>

-----------------------------------------------------------------------------
(* print_summary *)

\* datasets[:5]
Sample(ds) == SlicePrefix(ds, PreviewLimit)

\* dataset.get('open_access', {})
AccessOf(dataset) == Get(dataset, "open_access", Obj(EmptyMap))

\* whether .get('is_oa', False) can be called on dataset.get('open_access', {})
CanPreview(dataset) == IsMapping(AccessOf(dataset))

\* the four values print_summary reads from a record, as printed
Preview(i, dataset) ==
    <<"preview", i,
      PyStr(Get(dataset, "title", Str("No title"))),
      PyStr(Get(dataset, "publication_year", Str("Unknown year"))),
      PyStr(Get(dataset, "doi", Str("No DOI"))),
      PyStr(Get(AccessOf(dataset).v, "is_oa", Bool(FALSE)))>>

\* the banner and the total; the loop is entered "if datasets"
SummaryBanner ==
    /\ spc = "start"
    /\ stdout' = Append(stdout, <<"total", Len(sarg)>>)
    /\ IF Len(sarg) # 0
       THEN spc' = "loop" /\ si' = 1
       ELSE spc' = "returned" /\ si' = si
    /\ UNCHANGED <<caller, server, fetchVars, mpc, datasets, file, calls, status, crash, sarg>>

\* one pass of the for loop over datasets[:5]
SummaryPreview ==
    /\ spc = "loop"
    /\ si <= Len(Sample(sarg))
    /\ CanPreview(Sample(sarg)[si])
    /\ stdout' = Append(stdout, Preview(si, Sample(sarg)[si]))
    /\ si' = si + 1
    /\ UNCHANGED <<caller, server, fetchVars, mpc, datasets, file, calls, status, crash, sarg, spc>>

\* open_access is present and no mapping: .get raises AttributeError, which
\* nothing catches
SummaryRaise ==
    /\ spc = "loop"
    /\ si <= Len(Sample(sarg))
    /\ ~CanPreview(Sample(sarg)[si])
    /\ spc' = "raised"
    /\ IF caller = "main"
       THEN mpc' = "crashed" /\ status' = "exit1" /\ crash' = "summary"
       ELSE UNCHANGED <<mpc, status, crash>>
    /\ UNCHANGED <<caller, server, fetchVars, datasets, file, stdout, calls, sarg, si>>

\* the for loop is exhausted
SummaryReturn ==
    /\ spc = "loop"
    /\ si > Len(Sample(sarg))
    /\ spc' = "returned"
    /\ UNCHANGED <<caller, server, fetchVars, mpc, datasets, file, stdout, calls, status, crash, sarg, si>>

-----------------------------------------------------------------------------
(* save_datasets and main *)

Absent == [state |-> "absent", content |-> <<>>]
Written(ds) == [state |-> "written", content |-> ds]

\* mutant of HasRecords: the branch is always taken
HasRecordsAlways(ds) == TRUE

\* "if datasets:" in main
HasRecords(ds) == Len(ds) # 0

\* main after get_crick_datasets returned: the branch on "if datasets"
MainBranch ==
    /\ mpc = "branch"
    /\ IF HasRecords(datasets)
       THEN /\ mpc' = "save"
            /\ calls' = Append(calls, "save_datasets")
            /\ UNCHANGED <<stdout, status>>
       ELSE /\ mpc' = "done"
            /\ stdout' = Append(stdout, <<"nodata">>)
            /\ status' = "exit0"
            /\ calls' = calls
    /\ UNCHANGED <<caller, server, fetchVars, datasets, file, crash, summaryVars>>

\* save_datasets wrote the file; main goes on to print_summary(datasets)
SaveOk ==
    /\ mpc = "save"
    /\ file' = Written(datasets)
    /\ stdout' = Append(stdout, <<"saved", Len(datasets)>>)
    /\ mpc' = "summary"
    /\ calls' = Append(calls, "print_summary")
    /\ sarg' = datasets
    /\ spc' = "start"
    /\ UNCHANGED <<caller, server, fetchVars, datasets, status, crash, si>>

\* open(filename, 'w') raised OSError: the file is as it was, the error leaves main
SaveOpenFails ==
    /\ mpc = "save"
    /\ mpc' = "crashed"
    /\ status' = "exit1"
    /\ crash' = "write"
    /\ UNCHANGED <<caller, server, fetchVars, datasets, file, stdout, calls, summaryVars>>

\* json.dump raised after open truncated the file: a partial file is left
SaveDumpFails ==
    /\ mpc = "save"
    /\ file' = [state |-> "partial", content |-> <<>>]
    /\ mpc' = "crashed"
    /\ status' = "exit1"
    /\ crash' = "write"
    /\ UNCHANGED <<caller, server, fetchVars, datasets, stdout, calls, summaryVars>>

\* after print_summary returned: the keys of the first record, then the end
MainFields ==
    /\ caller = "main"
    /\ mpc = "summary"
    /\ spc = "returned"
    /\ stdout' = Append(stdout, <<"fields", DOMAIN datasets[1]>>)
    /\ mpc' = "done"
    /\ status' = "exit0"
    /\ UNCHANGED <<caller, server, fetchVars, datasets, file, calls, crash, summaryVars>>

-----------------------------------------------------------------------------
(* Specifications *)

Catalogs == {"clean", "mixed"}

\* the file before the run: absent, or left by an earlier run
OldFile == [state |-> "old", content |-> <<>>]

IdleSummary == sarg = <<>> /\ si = 0 /\ spc = "idle"

StartFetch(p, m) ==
    /\ per_page = p
    /\ max_results = m
    /\ page = 1
    /\ all_datasets = <<>>
    /\ fpc = "loop"
    /\ requests = <<>>
    /\ received = <<>>
    /\ failure = NoFailure

\* main(): get_crick_datasets(per_page=200) has been entered
InitMain ==
    /\ caller = "main"
    /\ \E k \in (0..MaxMainRecords) \cup ScenarioSizes, c \in Catalogs :
          server = Catalog(c, k)
    /\ StartFetch(DefaultPerPage, None)
    /\ mpc = "fetch"
    /\ calls = <<"get_crick_datasets">>
    /\ file \in {Absent, OldFile}

\* get_crick_datasets(per_page=p, max_results=m) has been entered
InitCall ==
    /\ caller = "call"
    /\ \E k \in 0..MaxRecords, c \in Catalogs : server = Catalog(c, k)
    /\ \E p \in 1..MaxPerPage, m \in {None} \cup {Some(n) : n \in 0..MaxResults} :
          StartFetch(p, m)
    /\ mpc = "idle"
    /\ calls = <<>>
    /\ file = Absent

Init ==
    /\ InitMain \/ InitCall
    /\ datasets = <<>>
    /\ stdout = <<>>
    /\ status = "running"
    /\ crash = "none"
    /\ IdleSummary

Next ==
    \/ FetchPageOk
    \/ FetchPageRequestError
    \/ FetchPageBadJsonCaught
    \/ FetchPageBadJsonUncaught
    \/ GetReturn
    \/ MainBranch
    \/ SaveOk
    \/ SaveOpenFails
    \/ SaveDumpFails
    \/ SummaryBanner
    \/ SummaryPreview
    \/ SummaryRaise
    \/ SummaryReturn
    \/ MainFields

Spec == Init /\ [][Next]_vars

\* Every request completes (with a response or an error) and the sequential
\* program keeps running
FairSpec == Spec /\ WF_vars(Next)

\* print_summary(ds) called on its own, ds any collection of up to MaxLen records
SummaryInputs ==
    UNION {{[i \in 1..n |-> Rec(i, Shapes[f[i]])] : f \in [1..n -> 1..Len(Shapes)]} : n \in 0..MaxLen}

InitSummary ==
    /\ caller = "summary"
    /\ server = <<>>
    /\ per_page = DefaultPerPage
    /\ max_results = None
    /\ page = 1
    /\ all_datasets = <<>>
    /\ fpc = "idle"
    /\ requests = <<>>
    /\ received = <<>>
    /\ failure = NoFailure
    /\ mpc = "idle"
    /\ datasets = <<>>
    /\ file = Absent
    /\ stdout = <<>>
    /\ calls = <<>>
    /\ status = "running"
    /\ crash = "none"
    /\ sarg \in SummaryInputs
    /\ si = 0
    /\ spc = "start"

NextSummary ==
    \/ SummaryBanner
    \/ SummaryPreview
    \/ SummaryRaise
    \/ SummaryReturn

SpecSummary == InitSummary /\ [][NextSummary]_vars

-----------------------------------------------------------------------------
(* Properties *)

K == Len(server)
Returned == fpc = "returned"
NoFail == failure.kind = "none"
CountUpTo(n) == [i \in 1..n |-> i]

RECURSIVE SumSeq(_)
SumSeq(q) == IF q = <<>> THEN 0 ELSE Head(q) + SumSeq(Tail(q))

\* the records of pages 1..n of the server, in order
RECURSIVE PagesUpTo(_, _, _)
PagesUpTo(srv, p, n) == IF n = 0 THEN <<>> ELSE PagesUpTo(srv, p, n - 1) \o Page(srv, p, n)

\* ceil(a / b)
CeilDiv(a, b) == (a + b - 1) \div b

\* min(k, max_results or infinity); "max_results or infinity" is infinity when
\* max_results is None or 0, as the expression evaluates
MinOrInfinity(k, m) == IF m = None \/ m[1] = 0 THEN k ELSE Min(k, m[1])

C2_PrefixOfUnbounded ==
    (Returned /\ NoFail /\ max_results # None /\ K > max_results[1]) =>
        /\ Len(all_datasets) = max_results[1]
        /\ all_datasets = SlicePrefix(FetchAll(server, per_page, None), max_results[1])

\* C3 (as stated): after a request error on page n no further request is issued,
\* nothing is raised, the records of pages 1..n-1 are returned in order, and when
\* they are not empty main persists them and then summarizes them.
FetchAfterRequestError ==
    failure.kind = "request" =>
        /\ requests = CountUpTo(failure.page)
        /\ fpc \in {"break", "returned"}
        /\ all_datasets = PagesUpTo(server, per_page, failure.page - 1)
        /\ (caller = "main" /\ mpc # "fetch") => datasets = all_datasets

C4_RequestsUntilShortPage ==
    /\ (NoFail /\ max_results = None) =>
          /\ requests = CountUpTo(Len(requests))
          /\ \A i \in 1..(Len(received) - 1) : received[i] = per_page
          /\ fpc = "loop" => (\A i \in 1..Len(received) : received[i] = per_page)
    /\ (Returned /\ NoFail /\ max_results = None) =>
          /\ Len(requests) = (K \div per_page) + 1
          /\ received[Len(received)] < per_page
          /\ Len(all_datasets) = K
          /\ (K = 450 /\ per_page = 200) => received = <<200, 200, 50>>
          /\ K = 0 => (requests = <<1>> /\ all_datasets = <<>>)

C4_Witness ==
    /\ Returned /\ NoFail /\ max_results = None
    /\ K = 450 /\ per_page = 200
    /\ requests = <<1, 2, 3>>
    /\ received = <<200, 200, 50>>
    /\ Len(all_datasets) = 450

\* C5 (as stated), on the runs of main in which every response body parses:
\* no error of the run (request failure, file-write failure) ends the process
\* with a non-zero status, and each request failure is logged to standard output.
C5_NeverNonZeroExit ==
    (caller = "main" /\ failure.kind # "json") =>
        /\ status # "exit1"
        /\ failure.kind = "request" =>
              \E j \in 1..Len(stdout) : stdout[j][1] = "error" /\ stdout[j][2] = failure.page

\* C5 (amended): a request failure is logged to standard output and is not
\* raised: get_crick_datasets returns and, unless a later stage raises, main
\* ends with status 0. The process ends with a non-zero status exactly when
\* the response body fails to parse with an error that is no
\* RequestException, when the write of the file fails, or when print_summary
\* raises.
ErrorLogged ==
    \E j \in 1..Len(stdout) : stdout[j][1] = "error" /\ stdout[j][2] = failure.page

C5_RequestErrorsLoggedOthersFatal ==
    /\ failure.kind = "request" => (fpc \in {"break", "returned"} /\ ErrorLogged /\ crash # "json")
    /\ (failure.kind = "json" /\ fpc # "raised") => ErrorLogged
    /\ caller = "main" =>
          /\ status = "exit1" <=> crash # "none"
          /\ status = "exit1" <=> mpc = "crashed"
          /\ status = "exit0" <=> mpc = "done"
          /\ crash = "json" => (failure.kind = "json" /\ fpc = "raised")
          /\ crash = "write" => (Returned /\ calls[Len(calls)] = "save_datasets")
          /\ crash = "summary" => (Returned /\ spc = "raised")

C5_Witness ==
    /\ caller = "main" /\ mpc = "done" /\ status = "exit0"
    /\ failure.kind = "request" /\ failure.page = 2
    /\ ErrorLogged
    /\ Len(datasets) # 0

\* what C6 says is printed for a record: the fallback for every value that is
\* missing, and False for an open_access that is absent, no mapping or without is_oa
ClaimedValue(dataset, key, default) ==
    IF key \in DOMAIN dataset THEN PyStr(dataset[key]) ELSE default

ClaimedAccess(dataset) ==
    IF "open_access" \in DOMAIN dataset /\ dataset["open_access"].t = "obj"
          /\ "is_oa" \in DOMAIN dataset["open_access"].v
    THEN PyStr(dataset["open_access"].v["is_oa"])
    ELSE "False"

ClaimedPreview(i, dataset) ==
    <<"preview", i, ClaimedValue(dataset, "title", "No title"),
      ClaimedValue(dataset, "publication_year", "Unknown year"),
      ClaimedValue(dataset, "doi", "No DOI"), ClaimedAccess(dataset)>>

\* C6: print_summary raises on no record, whatever is absent or malformed in
\* it (open_access that is no mapping included), and prints the fallbacks
\* "No title", "Unknown year", "No DOI" and False for the missing values.
C6_NeverFailsOnMalformed ==
    /\ spc # "raised"
    /\ \A j \in 1..Len(stdout) :
          stdout[j][1] = "preview" => stdout[j] = ClaimedPreview(stdout[j][2], sarg[stdout[j][2]])

\* the preview lines printed so far
IsPreview(line) == line[1] = "preview"
Previews == SelectSeq(stdout, IsPreview)

\* C7: print_summary prints the total n and exactly min(n, 5) previews, of the
\* first min(n, 5) records in order, numbered from 1; none for n = 0.
C7_PreviewsFirstFive ==
    (caller = "summary" /\ spc \in {"returned", "raised"}) =>
        /\ stdout[1] = <<"total", Len(sarg)>>
        /\ Len(Previews) = Min(Len(sarg), 5)
        /\ \A j \in 1..Len(Previews) :
              Previews[j][2] = j /\ Previews[j] = Preview(j, sarg[j])

\* what C8 says of a call with max_results = m and at least m records
FetchThenTruncate ==
    LET m == max_results[1]
        n == Len(requests)
    IN  /\ n = CeilDiv(m, per_page)
        /\ requests = CountUpTo(n)
        /\ Len(received) = n
        /\ received[n] = Len(Page(server, per_page, n))
        /\ SumSeq(received) = Min(K, n * per_page)
        /\ SumSeq(received) >= m
        /\ SumSeq(SubSeq(received, 1, n - 1)) < m
        /\ all_datasets = SubSeq(server, 1, m)

\* C8 (as stated): with max_results = m set and at least m records, the page
\* on which the count reaches m is received in full, the result is cut to m
\* afterwards, no request follows, and ceil(m/p) requests are made.
C8_CeilRequests ==
    (Returned /\ NoFail /\ max_results # None /\ K >= max_results[1]) => FetchThenTruncate

\* C8 (amended): the same for m >= 1; max_results = 0 is not a limit.
C8_CeilRequestsPositive ==
    (Returned /\ NoFail /\ max_results # None /\ max_results[1] >= 1 /\ K >= max_results[1])
        => FetchThenTruncate

\* the second page overshoots max_results and is cut
C8_Witness ==
    /\ Returned /\ NoFail /\ max_results # None /\ max_results[1] >= 1
    /\ Len(requests) = 2
    /\ SumSeq(received) > max_results[1]
    /\ Len(all_datasets) = max_results[1]

\* C9: the loop ends, whatever fails and whatever max_results is, after at
\* most floor(k/p) + 1 requests.
C9_LoopBounded ==
    /\ [](Len(requests) <= (K \div per_page) + 1)
    /\ <>(fpc = "returned" \/ crash = "json")

\* the bound is met by a call whose last request failed
C9_Witness ==
    /\ Returned
    /\ K >= 2 * per_page
    /\ Len(requests) = (K \div per_page) + 1
    /\ failure.kind = "request"

\* the lines main and the stages it calls print, without those of the fetch
OfMain(line) == line[1] \notin {"page", "error"}

\* C10: main runs fetch, then persist, then summarize, the last two only when
\* the fetch returned a record; on an empty result the file is neither created
\* nor overwritten, print_summary is not called and only the "No datasets
\* found" message is printed.
C10_StagesInOrder ==
    caller = "main" =>
        /\ \E n \in 1..3 :
              calls = SubSeq(<<"get_crick_datasets", "save_datasets", "print_summary">>, 1, n)
        /\ Len(calls) >= 2 => (Returned /\ datasets = all_datasets /\ Len(datasets) # 0)
        /\ Len(calls) = 3 <=> spc # "idle"
        /\ Len(calls) = 3 => (file = Written(datasets) /\ sarg = datasets)
        /\ Len(calls) < 2 => (file \in {Absent, OldFile} /\ SelectSeq(stdout, OfMain) \in {<<>>, << <<"nodata">> >>})
        /\ (mpc = "done" /\ Len(datasets) = 0) =>
              /\ calls = <<"get_crick_datasets">>
              /\ file \in {Absent, OldFile}
              /\ spc = "idle"
              /\ SelectSeq(stdout, OfMain) = << <<"nodata">> >>
        /\ (mpc = "done" /\ Len(datasets) # 0) => Len(calls) = 3

\* page 1 failed: nothing is saved over the file of an earlier run
C10_Witness ==
    /\ caller = "main" /\ mpc = "done"
    /\ failure = [kind |-> "request", page |-> 1]
    /\ datasets = <<>>
    /\ file = OldFile
    /\ SelectSeq(stdout, OfMain) = << <<"nodata">> >>

====
